---- MODULE Spec2Model ----
(***************************************************************************)
(* Model of the Proxmox LXC manager back end:                              *)
(*   src-tauri/src/proxmox.rs  ProxmoxClient (new, get_containers,         *)
(*                             get_container_ip, start/stop/delete)        *)
(*   src-tauri/src/lib.rs      the Tauri command facade and run()          *)
(*                                                                         *)
(* Strings that the code builds with format! are sequences of pieces, and  *)
(* the inet strings that the code splits are sequences of characters.      *)
(* Option<T> is a sequence of length 0 (None) or 1 (Some).                 *)
(***************************************************************************)
EXTENDS Integers, Sequences, FiniteSets, TLC

\* ---------------------------------------------------------------- bounds
NumTasks == 2      \* concurrent facade invocations
MaxVmid == 2       \* vmids are 1..MaxVmid
MaxRecords == 2    \* records in one listing response
MaxIfaces == 2     \* interfaces in one interfaces response
MaxInetLen == 2    \* characters in one inet string

Tasks == 1..NumTasks
Vmids == 1..MaxVmid
NoTask == 0

\* ---------------------------------------------------------------- values
None == <<>>
Some(x) == <<x>>
UnwrapOr(o, d) == IF o = None THEN d ELSE o[1]

Ok(v) == [ok |-> TRUE, val |-> v]
Err(m) == [ok |-> FALSE, err |-> m]
\* Result::ok(): Ok(v) -> Some(v), Err(_) -> None
ResultOk(r) == IF r.ok THEN Some(r.val) ELSE None

SeqsUpTo(S, n) == UNION {[1..k -> S] : k \in 0..n}

\* ------------------------------------------------------------ environment
RequiredVars == <<"PROXMOX_HOST", "PROXMOX_NODE", "PROXMOX_TOKEN_ID", "PROXMOX_TOKEN_SECRET">>
VarNames == {RequiredVars[i] : i \in 1..Len(RequiredVars)}
EnvValue(v) ==
    CASE v = "PROXMOX_HOST" -> "pve.lan:8006"
      [] v = "PROXMOX_NODE" -> "pve"
      [] v = "PROXMOX_TOKEN_ID" -> "root@pam!ui"
      [] v = "PROXMOX_TOKEN_SECRET" -> "s3cret"

\* env::var(name).map_err(|_| "<name> not set in .env file")
EnvVar(e, v) == IF v \in e THEN Ok(EnvValue(v)) ELSE Err(<<v, " not set in .env file">>)

BuildErrorText == "builder error"

\* The variant of new() that forgets to require the token secret.
NewWithoutSecretCheck(e, built) ==
    IF ~EnvVar(e, "PROXMOX_HOST").ok THEN Err(EnvVar(e, "PROXMOX_HOST").err)
    ELSE IF ~EnvVar(e, "PROXMOX_NODE").ok THEN Err(EnvVar(e, "PROXMOX_NODE").err)
    ELSE IF ~EnvVar(e, "PROXMOX_TOKEN_ID").ok THEN Err(EnvVar(e, "PROXMOX_TOKEN_ID").err)
    ELSE IF ~built THEN Err(<<"Failed to create HTTP client: ", BuildErrorText>>)
    ELSE Ok([host |-> EnvValue("PROXMOX_HOST"), node |-> EnvValue("PROXMOX_NODE"),
             token_id |-> EnvValue("PROXMOX_TOKEN_ID"),
             token_secret |-> EnvValue("PROXMOX_TOKEN_SECRET")])

\* ProxmoxClient::new(): the four variables are read in order, each `?`
\* returning at the first one that is not set, then the HTTP client is built.
ProxmoxClientNew(e, built) ==
    IF ~EnvVar(e, "PROXMOX_HOST").ok THEN Err(EnvVar(e, "PROXMOX_HOST").err)
    ELSE IF ~EnvVar(e, "PROXMOX_NODE").ok THEN Err(EnvVar(e, "PROXMOX_NODE").err)
    ELSE IF ~EnvVar(e, "PROXMOX_TOKEN_ID").ok THEN Err(EnvVar(e, "PROXMOX_TOKEN_ID").err)
    ELSE IF ~EnvVar(e, "PROXMOX_TOKEN_SECRET").ok THEN Err(EnvVar(e, "PROXMOX_TOKEN_SECRET").err)
    ELSE IF ~built THEN Err(<<"Failed to create HTTP client: ", BuildErrorText>>)
    ELSE Ok([host |-> EnvVar(e, "PROXMOX_HOST").val, node |-> EnvVar(e, "PROXMOX_NODE").val,
             token_id |-> EnvVar(e, "PROXMOX_TOKEN_ID").val,
             token_secret |-> EnvVar(e, "PROXMOX_TOKEN_SECRET").val])

\* ------------------------------------------------------------------ HTTP
StatusCodes == {200, 204, 401, 500}
IsSuccess(code) == code >= 200 /\ code <= 299
Reason(code) ==
    CASE code = 200 -> "OK"
      [] code = 204 -> "No Content"
      [] code = 401 -> "Unauthorized"
      [] code = 500 -> "Internal Server Error"
\* Display of StatusCode: "<code> <canonical reason>"
StatusDisplay(code) == <<ToString(code), " ", Reason(code)>>

TransportErrors == {"connection refused", "operation timed out"}
DecodeErrorText == "error decoding response body"

AuthHeader(c) == <<"PVEAPIToken=", c.token_id, "=", c.token_secret>>

ListUrl(c) == <<"https://", c.host, "/api2/json/nodes/", c.node, "/lxc">>
IfacesUrl(c, vmid) ==
    <<"https://", c.host, "/api2/json/nodes/", c.node, "/lxc/", ToString(vmid), "/interfaces">>
StartUrl(c, vmid) ==
    <<"https://", c.host, "/api2/json/nodes/", c.node, "/lxc/", ToString(vmid), "/status/start">>
StopUrl(c, vmid) ==
    <<"https://", c.host, "/api2/json/nodes/", c.node, "/lxc/", ToString(vmid), "/status/stop">>
DeleteUrl(c, vmid) ==
    <<"https://", c.host, "/api2/json/nodes/", c.node, "/lxc/", ToString(vmid)>>

Request(method, url, c) == [method |-> method, url |-> url, auth |-> AuthHeader(c)]

\* A response as the client sees it: the send failed (error is Some), or a
\* status arrived. Its body is None until response.json() has been awaited,
\* and stays None when it is never read or does not decode.
SendFailed(e) == [error |-> Some(e), status |-> 0, body |-> None]
Answer(code, body) == [error |-> None, status |-> code, body |-> body]
NoResponse == [error |-> None, status |-> 0, body |-> None]

\* ------------------------------------------------------------ wire data
Statuses == {"running", "stopped", "Running"}

\* ProxmoxContainer: vmid and status are required, the rest is optional.
\* The optional fields of a sample record are all present or all absent.
RawRecord(v, st, full) ==
    [vmid |-> v, status |-> st,
     name |-> IF full THEN Some(<<"web">>) ELSE None,
     uptime |-> IF full THEN Some(60) ELSE None,
     mem |-> IF full THEN Some(512) ELSE None,
     maxmem |-> IF full THEN Some(1024) ELSE None,
     cpu |-> IF full THEN Some(5) ELSE None,
     cpus |-> IF full THEN Some(2) ELSE None,
     diskread |-> IF full THEN Some(7) ELSE None,
     diskwrite |-> IF full THEN Some(9) ELSE None]
RawRecords == {RawRecord(v, st, full) : v \in Vmids, st \in Statuses, full \in BOOLEAN}
RawLists == SeqsUpTo(RawRecords, MaxRecords)

\* NetworkInterface: name and an optional inet in CIDR notation.
Chars == {"1", "/"}
InetStrings == SeqsUpTo(Chars, MaxInetLen)
Interfaces == [name : {"lo", "eth0"}, inet : {None} \cup {Some(s) : s \in InetStrings}]
IfaceLists == SeqsUpTo(Interfaces, MaxIfaces)

\* -------------------------------------------------------- get_container_ip
\* inet.split('/').next(): the characters before the first '/'.
RECURSIVE SplitFirst(_)
SplitFirst(s) ==
    IF s = <<>> THEN <<>>
    ELSE IF Head(s) = "/" THEN <<>>
    ELSE <<Head(s)>> \o SplitFirst(Tail(s))

\* The variant of the scan that does not skip the loopback interface.
RECURSIVE ScanWithLoopback(_)
ScanWithLoopback(ifs) ==
    IF ifs = <<>> THEN Err(<<"No IP found">>)
    ELSE IF Head(ifs).inet # None THEN Ok(SplitFirst(Head(ifs).inet[1]))
    ELSE ScanWithLoopback(Tail(ifs))

\* The for loop over proxmox_response.data of get_container_ip.
RECURSIVE ScanInterfaces(_)
ScanInterfaces(ifs) ==
    IF ifs = <<>> THEN Err(<<"No IP found">>)
    ELSE IF Head(ifs).name # "lo" /\ Head(ifs).inet # None
         THEN Ok(SplitFirst(Head(ifs).inet[1]))
    ELSE ScanInterfaces(Tail(ifs))

\* get_container_ip when send().await returns: Some(error) for the two
\* early returns, None when the call goes on to await the body.
IpSendResult(head) ==
    IF head.error # None THEN Some(Err(<<"Failed to fetch IP: ", head.error[1]>>))
    ELSE IF ~IsSuccess(head.status) THEN Some(Err(<<"Failed to get IP">>))
    ELSE None

\* get_container_ip when response.json().await returns.
IpBodyResult(body) ==
    IF body = None THEN Err(<<"Failed to parse interfaces">>)
    ELSE ScanInterfaces(body[1])

\* ---------------------------------------------------------- get_containers
\* The variant that does not look at the status before reading the body.
ListSendIgnoringStatus(head) ==
    IF head.error # None THEN Some(Err(<<"Failed to fetch containers: ", head.error[1]>>))
    ELSE None

\* get_containers when send().await returns: Some(error) for the two early
\* returns, None when the call goes on to await the body.
ListSendResult(head) ==
    IF head.error # None THEN Some(Err(<<"Failed to fetch containers: ", head.error[1]>>))
    ELSE IF ~IsSuccess(head.status) THEN Some(Err(<<"API error: ">> \o StatusDisplay(head.status)))
    ELSE None

\* get_containers when response.json().await returns.
ListBodyResult(body) ==
    IF body = None THEN Err(<<"Failed to parse response: ", DecodeErrorText>>)
    ELSE Ok(body[1])

\* The variant that looks up an address for every record.
NeedsIpAlways(ct) == TRUE

\* if ct.status == "running"
NeedsIp(ct) == ct.status = "running"

\* Container { ... } built from one raw record and its ip_address.
Normalize(ct, ip) ==
    [vmid |-> ct.vmid,
     name |-> UnwrapOr(ct.name, <<"CT-", ToString(ct.vmid)>>),
     status |-> ct.status,
     uptime |-> UnwrapOr(ct.uptime, 0),
     memory |-> UnwrapOr(ct.mem, 0),
     max_memory |-> UnwrapOr(ct.maxmem, 0),
     cpu |-> UnwrapOr(ct.cpu, 0),
     cpus |-> UnwrapOr(ct.cpus, 1),
     disk_read |-> UnwrapOr(ct.diskread, 0),
     disk_write |-> UnwrapOr(ct.diskwrite, 0),
     ip_address |-> ip]

\* The variant that keeps only the containers whose lookup answered.
PushIfResolved(cs, ct, ip) ==
    IF ct.status = "running" /\ ip = None THEN cs ELSE Append(cs, Normalize(ct, ip))

\* The variant that pushes a placeholder first and the enriched entry after.
PushTwice(cs, ct, ip) ==
    IF ip # None THEN Append(Append(cs, Normalize(ct, None)), Normalize(ct, ip))
    ELSE Append(cs, Normalize(ct, ip))

\* containers.push(Container { ... })
PushContainer(cs, ct, ip) == Append(cs, Normalize(ct, ip))

\* Insert c behind every element whose key is not larger (stable).
RECURSIVE InsertByVmid(_, _)
InsertByVmid(sorted, c) ==
    IF sorted = <<>> THEN <<c>>
    ELSE IF Head(sorted).vmid <= c.vmid THEN <<Head(sorted)>> \o InsertByVmid(Tail(sorted), c)
    ELSE <<c>> \o sorted

RECURSIVE InsertionSort(_, _)
InsertionSort(sorted, rest) ==
    IF rest = <<>> THEN sorted
    ELSE InsertionSort(InsertByVmid(sorted, Head(rest)), Tail(rest))

\* The variant that returns the list in response order.
Unsorted(cs) == cs

\* containers.sort_by_key(|c| c.vmid): a stable sort.
SortByVmid(cs) == InsertionSort(<<>>, cs)

\* The loop from record i up to the next await: records that need no
\* address are pushed at once; it stops at the end of the data or at the
\* first record whose address must be fetched.
RECURSIVE RunLoop(_, _, _)
RunLoop(d, i, cs) ==
    IF i > Len(d) THEN [i |-> i, cs |-> cs]
    ELSE IF NeedsIp(d[i]) THEN [i |-> i, cs |-> cs]
    ELSE RunLoop(d, i + 1, PushContainer(cs, d[i], None))

\* ---------------------------------------------------------- start/stop/delete
Commands == {"get_containers", "start_container", "stop_container", "delete_container"}
LifecycleCommands == {"start_container", "stop_container", "delete_container"}

Verb(cmd) ==
    CASE cmd = "start_container" -> "start"
      [] cmd = "stop_container" -> "stop"
      [] cmd = "delete_container" -> "delete"
Done(cmd) ==
    CASE cmd = "start_container" -> "started"
      [] cmd = "stop_container" -> "stopped"
      [] cmd = "delete_container" -> "deleted"

\* The variant that reports success for whatever status came back.
LifecycleResultUnchecked(cmd, vmid, resp) ==
    IF resp.error # None
    THEN Err(<<"Failed to ", Verb(cmd), " container: ", resp.error[1]>>)
    ELSE Ok(<<"Container ", ToString(vmid), " ", Done(cmd), " successfully">>)

\* start_container / stop_container / delete_container after the send.
LifecycleResult(cmd, vmid, resp) ==
    IF resp.error # None
    THEN Err(<<"Failed to ", Verb(cmd), " container: ", resp.error[1]>>)
    ELSE IF ~IsSuccess(resp.status)
    THEN Err(<<"Failed to ", Verb(cmd), " container: ">> \o StatusDisplay(resp.status))
    ELSE Ok(<<"Container ", ToString(vmid), " ", Done(cmd), " successfully">>)

\* The one request each client method starts with.
FirstRequest(c, cmd, vmid) ==
    CASE cmd = "get_containers" -> Request("GET", ListUrl(c), c)
      [] cmd = "start_container" -> Request("POST", StartUrl(c, vmid), c)
      [] cmd = "stop_container" -> Request("POST", StopUrl(c, vmid), c)
      [] cmd = "delete_container" -> Request("DELETE", DeleteUrl(c, vmid), c)

\* ----------------------------------------------------------------- state
VARIABLES
    env,         \* the required variables that are set in the environment
    buildOk,     \* whether Client::builder().build() succeeds
    booted,      \* run() has stored the AppState
    proxmox,     \* AppState.proxmox: Option<ProxmoxClient> inside the Mutex
    bootLog,     \* what run() printed about the construction
    guard,       \* the task holding the MutexGuard, or NoTask
    pc,          \* where each invocation stands
    cmd,         \* the command each invocation runs
    arg,         \* its vmid argument (0 for get_containers)
    client,      \* its local copy of the slot
    sent,        \* the requests it has issued, in order
    response,    \* the response to its first request
    ifResponse,  \* get_container_ip: the response to the last interfaces request
    ipResult,    \* get_container_ip: what the last call returned
    data,        \* get_containers: the decoded raw records
    idx,         \* get_containers: the record the loop stands at
    containers,  \* get_containers: the containers vector
    result       \* the value the invocation returns, once it has one

vars == <<env, buildOk, booted, proxmox, bootLog, guard, pc, cmd, arg, client,
          sent, response, ifResponse, ipResult, data, idx, containers, result>>
bootVars == <<env, buildOk, booted, proxmox, bootLog>>
listVars == <<ifResponse, ipResult, data, idx, containers>>

\* The variant that keeps the guard bound for the rest of the command.
GuardKept(t) == t

\* The guard at the end of the block `{ let guard = ...; guard.clone() }`.
GuardAfterBlock(t) == NoTask

\* The variant in which start/stop/delete unwrap the slot into a default
\* client instead of matching on it.
FacadeCallUnchecked(c, command, vmid) ==
    IF c = None /\ command = "get_containers"
    THEN [send |-> <<>>, result |-> Some(Err(<<"Proxmox client not initialized">>))]
    ELSE [send |-> <<FirstRequest(UnwrapOr(c, [host |-> "", node |-> "", token_id |-> "",
                                               token_secret |-> ""]), command, vmid)>>,
          result |-> None]

\* `match client { Some(proxmox) => proxmox.<command>(..), None => Err(..) }`
\* up to the first await of the client method.
FacadeCall(c, command, vmid) ==
    IF c = None
    THEN [send |-> <<>>, result |-> Some(Err(<<"Proxmox client not initialized">>))]
    ELSE [send |-> <<FirstRequest(c[1], command, vmid)>>, result |-> None]

InitTasks ==
    /\ guard = NoTask
    /\ pc = [t \in Tasks |-> "idle"]
    /\ cmd = [t \in Tasks |-> "none"]
    /\ arg = [t \in Tasks |-> 0]
    /\ client = [t \in Tasks |-> None]
    /\ sent = [t \in Tasks |-> <<>>]
    /\ response = [t \in Tasks |-> NoResponse]
    /\ ifResponse = [t \in Tasks |-> NoResponse]
    /\ ipResult = [t \in Tasks |-> None]
    /\ data = [t \in Tasks |-> <<>>]
    /\ idx = [t \in Tasks |-> 0]
    /\ containers = [t \in Tasks |-> <<>>]
    /\ result = [t \in Tasks |-> None]

\* Before run(): any subset of the required variables may be set.
Init ==
    /\ env \in SUBSET VarNames
    /\ buildOk \in BOOLEAN
    /\ booted = FALSE
    /\ proxmox = None
    /\ bootLog = <<>>
    /\ InitTasks

\* A complete environment on a machine where the HTTP client builds.
InitConfigured ==
    /\ env = VarNames
    /\ buildOk = TRUE
    /\ booted = FALSE
    /\ proxmox = None
    /\ bootLog = <<>>
    /\ InitTasks

\* run(): construct the client and store Some(client) or None in the slot.
\* (The printed lines start with a check mark or a cross, left out here.)
Run ==
    /\ ~booted
    /\ booted' = TRUE
    /\ LET r == ProxmoxClientNew(env, buildOk) IN
         /\ proxmox' = ResultOk(r)
         /\ bootLog' = IF r.ok THEN <<"Proxmox client initialized">>
                       ELSE <<"Failed to initialize Proxmox client: ">> \o r.err
    /\ UNCHANGED <<env, buildOk, guard, pc, cmd, arg, client, sent, response,
                   listVars, result>>

\* The webview invokes a command.
Invoke(t) ==
    /\ booted
    /\ pc[t] = "idle"
    /\ \E c \in Commands : \E v \in (IF c = "get_containers" THEN {0} ELSE Vmids) :
         /\ cmd' = [cmd EXCEPT ![t] = c]
         /\ arg' = [arg EXCEPT ![t] = v]
    /\ pc' = [pc EXCEPT ![t] = "lock"]
    /\ UNCHANGED <<bootVars, guard, client, sent, response, listVars, result>>

\* state.proxmox.lock().unwrap()
Lock(t) ==
    /\ pc[t] = "lock"
    /\ guard = NoTask
    /\ guard' = t
    /\ pc' = [pc EXCEPT ![t] = "clone"]
    /\ UNCHANGED <<bootVars, cmd, arg, client, sent, response, listVars, result>>

\* guard.clone(), and the guard goes out of scope
CloneRelease(t) ==
    /\ pc[t] = "clone"
    /\ guard = t
    /\ client' = [client EXCEPT ![t] = proxmox]
    /\ guard' = GuardAfterBlock(t)
    /\ pc' = [pc EXCEPT ![t] = "match"]
    /\ UNCHANGED <<bootVars, cmd, arg, sent, response, listVars, result>>

\* match client: fail at once, or call the client method up to its send
Delegate(t) ==
    /\ pc[t] = "match"
    /\ LET f == FacadeCall(client[t], cmd[t], arg[t]) IN
         /\ sent' = [sent EXCEPT ![t] = f.send]
         /\ result' = [result EXCEPT ![t] = f.result]
         /\ pc' = [pc EXCEPT ![t] = IF f.result # None THEN "done"
                                    ELSE IF cmd[t] = "get_containers" THEN "await_list"
                                    ELSE "await_action"]
    /\ UNCHANGED <<bootVars, guard, cmd, arg, client, response, listVars>>

\* get_containers from record i on, with cs pushed so far: run the loop to
\* its next await (send the interfaces request) or to its end (sort, Ok).
Proceed(t, d, i, cs) ==
    LET s == RunLoop(d, i, cs) IN
      /\ data' = [data EXCEPT ![t] = d]
      /\ idx' = [idx EXCEPT ![t] = s.i]
      /\ IF s.i > Len(d)
         THEN /\ containers' = [containers EXCEPT ![t] = SortByVmid(s.cs)]
              /\ result' = [result EXCEPT ![t] = Some(Ok(SortByVmid(s.cs)))]
              /\ pc' = [pc EXCEPT ![t] = "done"]
              /\ sent' = sent
         ELSE /\ containers' = [containers EXCEPT ![t] = s.cs]
              /\ result' = result
              /\ pc' = [pc EXCEPT ![t] = "await_ip"]
              /\ sent' = [sent EXCEPT ![t] =
                            Append(@, Request("GET", IfacesUrl(client[t][1], d[s.i].vmid),
                                              client[t][1]))]

\* send().await of the main listing request returns: the send failed or a
\* status arrived. On a success status the call awaits the body next.
ListSent(t, heads) ==
    /\ pc[t] = "await_list"
    /\ \E h \in heads :
         /\ response' = [response EXCEPT ![t] = h]
         /\ IF ListSendResult(h) = None
            THEN /\ pc' = [pc EXCEPT ![t] = "await_list_body"]
                 /\ result' = result
            ELSE /\ pc' = [pc EXCEPT ![t] = "done"]
                 /\ result' = [result EXCEPT ![t] = ListSendResult(h)]
    /\ UNCHANGED <<bootVars, guard, cmd, arg, client, sent, listVars>>

\* response.json().await of the main listing returns: a decode error, or
\* the records, and then the loop up to its next await or its end.
ListBody(t, bodies) ==
    /\ pc[t] = "await_list_body"
    /\ \E b \in bodies :
         /\ response' = [response EXCEPT ![t].body = b]
         /\ IF ListBodyResult(b).ok
            THEN Proceed(t, ListBodyResult(b).val, 1, <<>>)
            ELSE /\ result' = [result EXCEPT ![t] = Some(ListBodyResult(b))]
                 /\ pc' = [pc EXCEPT ![t] = "done"]
                 /\ UNCHANGED <<sent, data, idx, containers>>
    /\ UNCHANGED <<bootVars, guard, cmd, arg, client, ifResponse, ipResult>>

\* send().await of the interfaces request of record idx returns. On a
\* failure get_container_ip returns its error: .ok(), the push and the loop
\* onward. On a success status the call awaits the body next.
IpSent(t, heads) ==
    /\ pc[t] = "await_ip"
    /\ \E h \in heads :
         /\ ifResponse' = [ifResponse EXCEPT ![t] = h]
         /\ IF IpSendResult(h) = None
            THEN /\ pc' = [pc EXCEPT ![t] = "await_ip_body"]
                 /\ UNCHANGED <<ipResult, sent, data, idx, containers, result>>
            ELSE /\ ipResult' = [ipResult EXCEPT ![t] = IpSendResult(h)]
                 /\ Proceed(t, data[t], idx[t] + 1,
                            PushContainer(containers[t], data[t][idx[t]],
                                          ResultOk(IpSendResult(h)[1])))
    /\ UNCHANGED <<bootVars, guard, cmd, arg, client, response>>

\* response.json().await of the interfaces answer returns: the scan,
\* .ok(), the push and the loop onward.
IpBody(t, bodies) ==
    /\ pc[t] = "await_ip_body"
    /\ \E b \in bodies :
         /\ ifResponse' = [ifResponse EXCEPT ![t].body = b]
         /\ ipResult' = [ipResult EXCEPT ![t] = Some(IpBodyResult(b))]
         /\ Proceed(t, data[t], idx[t] + 1,
                    PushContainer(containers[t], data[t][idx[t]], ResultOk(IpBodyResult(b))))
    /\ UNCHANGED <<bootVars, guard, cmd, arg, client, response>>

\* send().await of start/stop/delete returns; the body is never read.
ActionResponse(t, resps) ==
    /\ pc[t] = "await_action"
    /\ \E r \in resps :
         /\ response' = [response EXCEPT ![t] = r]
         /\ result' = [result EXCEPT ![t] = Some(LifecycleResult(cmd[t], arg[t], r))]
    /\ pc' = [pc EXCEPT ![t] = "done"]
    /\ UNCHANGED <<bootVars, guard, cmd, arg, client, sent, listVars>>

\* The command's future completes and its locals are dropped.
Return(t) ==
    /\ pc[t] = "done"
    /\ pc' = [pc EXCEPT ![t] = "idle"]
    /\ cmd' = [cmd EXCEPT ![t] = "none"]
    /\ arg' = [arg EXCEPT ![t] = 0]
    /\ client' = [client EXCEPT ![t] = None]
    /\ sent' = [sent EXCEPT ![t] = <<>>]
    /\ response' = [response EXCEPT ![t] = NoResponse]
    /\ ifResponse' = [ifResponse EXCEPT ![t] = NoResponse]
    /\ ipResult' = [ipResult EXCEPT ![t] = None]
    /\ data' = [data EXCEPT ![t] = <<>>]
    /\ idx' = [idx EXCEPT ![t] = 0]
    /\ containers' = [containers EXCEPT ![t] = <<>>]
    /\ result' = [result EXCEPT ![t] = None]
    /\ UNCHANGED <<bootVars, guard>>

\* ------------------------------------------------------- remote answers
\* What send().await can return, and what response.json().await can.
Heads == {SendFailed(e) : e \in TransportErrors} \cup {Answer(code, None) : code \in StatusCodes}
Bodies(payloads) == {None} \cup {Some(x) : x \in payloads}

Iface(n, i) == [name |-> n, inet |-> i]
SampleIfaceLists ==
    { <<>>,
      <<Iface("eth0", Some(<<"1", "/">>))>>,
      <<Iface("lo", Some(<<"1">>)), Iface("eth0", None)>> }
SampleHeads == {SendFailed("connection refused"), Answer(500, None), Answer(200, None)}
RunningLists == {<<RawRecord(v, "running", full)>> : v \in Vmids, full \in BOOLEAN}
SampleLists == {<<>>, <<RawRecord(1, "running", FALSE)>>, <<RawRecord(1, "stopped", TRUE)>>}

\* The answers each specification draws from.
FacadeListBodies == Bodies(SampleLists)
FacadeIpBodies == Bodies({<<>>, <<Iface("eth0", Some(<<"1", "/">>))>>})
ClientListBodies == Bodies(RawLists)
ClientIpBodies == Bodies(SampleIfaceLists)
IpListHeads == {Answer(200, None)}
IpListBodies == {Some(l) : l \in RunningLists}
IpIpBodies == Bodies(IfaceLists)

\* ------------------------------------------------------- specifications
\* The facade with NumTasks concurrent invocations; the remote answers are
\* drawn from a few samples of each kind.
Next ==
    \/ Run
    \/ \E t \in Tasks : Invoke(t)
    \/ \E t \in Tasks : Lock(t)
    \/ \E t \in Tasks : CloneRelease(t)
    \/ \E t \in Tasks : Delegate(t)
    \/ \E t \in Tasks : ListSent(t, SampleHeads)
    \/ \E t \in Tasks : ListBody(t, FacadeListBodies)
    \/ \E t \in Tasks : IpSent(t, SampleHeads)
    \/ \E t \in Tasks : IpBody(t, FacadeIpBodies)
    \/ \E t \in Tasks : ActionResponse(t, SampleHeads)
    \/ \E t \in Tasks : Return(t)
Spec == Init /\ [][Next]_vars

\* One invocation at a time on a configured client; every listing of up to
\* MaxRecords records, every answer to start/stop/delete.
NextClient ==
    \/ Run
    \/ Invoke(1)
    \/ Lock(1)
    \/ CloneRelease(1)
    \/ Delegate(1)
    \/ ListSent(1, Heads)
    \/ ListBody(1, ClientListBodies)
    \/ IpSent(1, Heads)
    \/ IpBody(1, ClientIpBodies)
    \/ ActionResponse(1, Heads)
    \/ Return(1)
SpecClient == InitConfigured /\ [][NextClient]_vars

\* One listing of one running container; every interfaces answer of up to
\* MaxIfaces interfaces.
NextIp ==
    \/ Run
    \/ Invoke(1)
    \/ Lock(1)
    \/ CloneRelease(1)
    \/ Delegate(1)
    \/ ListSent(1, IpListHeads)
    \/ ListBody(1, IpListBodies)
    \/ IpSent(1, Heads)
    \/ IpBody(1, IpIpBodies)
    \/ Return(1)
SpecIp == InitConfigured /\ [][NextIp]_vars

\* ----------------------------------------------------- claim vocabulary
\* An invocation of get_containers that reached the client and returned.
ListingDone(t) == cmd[t] = "get_containers" /\ client[t] # None /\ pc[t] = "done"
\* The main response was sent, had a success status and decoded.
MainDecoded(t) ==
    /\ response[t].error = None
    /\ response[t].status \in 200..299
    /\ response[t].body # None
Returned(t) == result[t][1]
Awaiting == {"await_list", "await_list_body", "await_ip", "await_ip_body", "await_action"}

\* Where record i of d stands after a stable sort by vmid.
SortedPos(d, i) ==
    Cardinality({j \in 1..Len(d) : d[j].vmid < d[i].vmid \/ (d[j].vmid = d[i].vmid /\ j <= i)})
\* A container and a raw record agree on everything but the address.
SameRecord(c, r) ==
    /\ c.vmid = r.vmid
    /\ c.status = r.status
    /\ c.name = (IF r.name = <<>> THEN <<"CT-", ToString(r.vmid)>> ELSE r.name[1])
    /\ c.uptime = (IF r.uptime = <<>> THEN 0 ELSE r.uptime[1])
    /\ c.memory = (IF r.mem = <<>> THEN 0 ELSE r.mem[1])
    /\ c.max_memory = (IF r.maxmem = <<>> THEN 0 ELSE r.maxmem[1])
    /\ c.cpu = (IF r.cpu = <<>> THEN 0 ELSE r.cpu[1])
    /\ c.cpus = (IF r.cpus = <<>> THEN 1 ELSE r.cpus[1])
    /\ c.disk_read = (IF r.diskread = <<>> THEN 0 ELSE r.diskread[1])
    /\ c.disk_write = (IF r.diskwrite = <<>> THEN 0 ELSE r.diskwrite[1])
CountVmid(q, v) == Cardinality({i \in 1..Len(q) : q[i].vmid = v})
DistinctVmids(q) == \A i, j \in 1..Len(q) : q[i].vmid = q[j].vmid => i = j
\* The interfaces lookup failed in some way.
LookupFailed(r) ==
    \/ r.error # <<>>
    \/ r.status \notin 200..299
    \/ r.body = <<>>
    \/ \A k \in 1..Len(r.body[1]) : r.body[1][k].name = "lo" \/ r.body[1][k].inet = <<>>
\* The records of d up to n whose status is exactly "running".
RunningUpTo(d, n) == {i \in 1..Len(d) : i <= n /\ d[i].status = "running"}

\* ------------------------------------------------------------------- C1
\* C1: in every list a get_containers call returns, an entry has an
\* ip_address only if its status is exactly "running".
C1_IpOnlyWhenRunning ==
    \A t \in Tasks :
        (ListingDone(t) /\ Returned(t).ok) =>
            \A i \in 1..Len(Returned(t).val) :
                Returned(t).val[i].ip_address # <<>> => Returned(t).val[i].status = "running"

\* A returned list with a running entry that has an address next to an
\* entry of another status without one, the last lookup having answered.
C1_Witness ==
    \E t \in Tasks :
        /\ ListingDone(t) /\ Returned(t).ok
        /\ ipResult[t] # <<>> /\ ipResult[t][1].ok
        /\ \E i, j \in 1..Len(Returned(t).val) :
              /\ Returned(t).val[i].status = "running"
              /\ Returned(t).val[i].ip_address # <<>>
              /\ Returned(t).val[j].status \in {"stopped", "Running"}
              /\ Returned(t).val[j].ip_address = <<>>

\* ------------------------------------------------------------------- C2
\* C2: once the main response is decoded, the call returns Ok with exactly
\* one entry per raw record, each at its sorted place and equal to its
\* record in every field but the address, whatever the lookups answered;
\* the call is never an error while or after the lookups run; and a failed
\* lookup leaves the address of its own container absent.
C2_EnrichmentFailureIsAbsorbed ==
    \A t \in Tasks :
        /\ (cmd[t] = "get_containers" /\ pc[t] \in {"await_ip", "await_ip_body"}) => result[t] = <<>>
        /\ (cmd[t] = "get_containers" /\ pc[t] = "await_ip"
              /\ ifResponse[t] # NoResponse /\ LookupFailed(ifResponse[t])) =>
               \A k \in RunningUpTo(data[t], idx[t] - 1) :
                   (\A m \in RunningUpTo(data[t], idx[t] - 1) : m <= k) =>
                       /\ k <= Len(containers[t])
                       /\ containers[t][k].ip_address = <<>>
        /\ (ListingDone(t) /\ MainDecoded(t)) =>
               /\ Returned(t).ok
               /\ Len(Returned(t).val) = Len(response[t].body[1])
               /\ \A i \in 1..Len(response[t].body[1]) :
                      SameRecord(Returned(t).val[SortedPos(response[t].body[1], i)],
                                 response[t].body[1][i])
               /\ (ifResponse[t] # NoResponse /\ LookupFailed(ifResponse[t])) =>
                      \A k \in RunningUpTo(response[t].body[1], Len(response[t].body[1])) :
                          (\A m \in RunningUpTo(response[t].body[1], Len(response[t].body[1])) : m <= k) =>
                              Returned(t).val[SortedPos(response[t].body[1], k)].ip_address = <<>>

\* A returned list of two running containers where the lookup of the
\* second failed and the first kept its address.
C2_Witness ==
    \E t \in Tasks :
        /\ ListingDone(t) /\ MainDecoded(t) /\ Returned(t).ok
        /\ Len(data[t]) = 2
        /\ data[t][1].status = "running" /\ data[t][2].status = "running"
        /\ LookupFailed(ifResponse[t])
        /\ \E i, j \in 1..2 : /\ Returned(t).val[i].ip_address # <<>>
                              /\ Returned(t).val[j].ip_address = <<>>

\* ------------------------------------------------------------------- C3
\* C3: a returned list is sorted ascending by vmid and carries every vmid
\* exactly as often as the remote response does.
C3_SortedSameVmids ==
    \A t \in Tasks :
        (ListingDone(t) /\ MainDecoded(t) /\ Returned(t).ok) =>
            /\ \A i, j \in 1..Len(Returned(t).val) :
                   i < j => Returned(t).val[i].vmid <= Returned(t).val[j].vmid
            /\ \A v \in Vmids :
                   CountVmid(Returned(t).val, v) = CountVmid(response[t].body[1], v)

\* A response whose records come in descending vmid order has been
\* returned in ascending order.
C3_Witness ==
    \E t \in Tasks :
        /\ ListingDone(t) /\ MainDecoded(t) /\ Returned(t).ok
        /\ Len(response[t].body[1]) >= 2
        /\ response[t].body[1][1].vmid > response[t].body[1][Len(response[t].body[1])].vmid
        /\ Returned(t).val[1].vmid < Returned(t).val[Len(Returned(t).val)].vmid

\* ------------------------------------------------------------------- C4
\* C4 as stated: no two entries of a returned list carry the same vmid.
C4_Original_NoDuplicateVmid ==
    \A t \in Tasks :
        (ListingDone(t) /\ Returned(t).ok) => DistinctVmids(Returned(t).val)

\* C4 as amended: a returned list repeats a vmid exactly when the remote
\* response repeats one; the listing neither removes nor adds a duplicate.
C4_DuplicatesOnlyFromResponse ==
    \A t \in Tasks :
        (ListingDone(t) /\ MainDecoded(t) /\ Returned(t).ok) =>
            (DistinctVmids(Returned(t).val) <=> DistinctVmids(response[t].body[1]))

\* A response of two different vmids, one of them running with an address
\* found, has been returned.
C4_Witness ==
    \E t \in Tasks :
        /\ ListingDone(t) /\ MainDecoded(t) /\ Returned(t).ok
        /\ Len(response[t].body[1]) = 2
        /\ DistinctVmids(response[t].body[1])
        /\ \E i \in 1..Len(Returned(t).val) : Returned(t).val[i].ip_address # <<>>

\* ------------------------------------------------------------------- C5
\* C5: while the slot is empty after start-up, no invocation ever holds a
\* client, issues a request or waits for a response, and every invocation
\* that returns, returns the error "Proxmox client not initialized".
C5_NotInitialized ==
    (booted /\ proxmox = <<>>) =>
        \A t \in Tasks :
            /\ client[t] = <<>>
            /\ sent[t] = <<>>
            /\ pc[t] \notin Awaiting
            /\ pc[t] = "done" => result[t] = <<[ok |-> FALSE, err |-> <<"Proxmox client not initialized">>]>>

\* With an empty slot, one invocation of a lifecycle command has returned
\* while another invocation of get_containers has returned too.
C5_Witness ==
    /\ booted /\ proxmox = <<>>
    /\ \E t, u \in Tasks :
          /\ t # u
          /\ pc[t] = "done" /\ cmd[t] \in LifecycleCommands
          /\ pc[u] = "done" /\ cmd[u] = "get_containers"

\* ------------------------------------------------------------------- C6
\* C6: the guard is held only by an invocation that stands between its
\* lock and its clone, which has issued no request; an invocation with a
\* request in flight never holds it, and whenever the guard is free an
\* invocation waiting to lock can take it.
C6_GuardNeverHeldAcrossRequest ==
    /\ \A t \in Tasks : guard = t => (pc[t] = "clone" /\ sent[t] = <<>>)
    /\ \A t \in Tasks : pc[t] \in Awaiting => guard # t
    /\ \A t, u \in Tasks :
          (pc[t] \in Awaiting /\ pc[u] = "lock" /\ \A w \in Tasks : pc[w] # "clone") =>
              ENABLED Lock(u)

\* One invocation has the status of its answer and waits for the body
\* while another holds the guard.
C6_Witness ==
    \E t, u \in Tasks :
        /\ pc[t] \in {"await_list_body", "await_ip_body"} /\ Len(sent[t]) >= 1
        /\ guard = u /\ pc[u] = "clone"

\* ------------------------------------------------------------------- C7
C7_Suffix(c) ==
    CASE c = "start_container" -> <<"/status/start">>
      [] c = "stop_container" -> <<"/status/stop">>
      [] c = "delete_container" -> <<>>
C7_Past(c) ==
    CASE c = "start_container" -> "started"
      [] c = "stop_container" -> "stopped"
      [] c = "delete_container" -> "deleted"
\* C7: start/stop/delete issue exactly one request, the POST or DELETE for
\* that vmid on the configured node, and the result follows from its
\* response alone: the transport message on a failed send, the status code
\* on a non-success status, the confirmation naming vmid and action else.
C7_LifecycleSingleRequest ==
    \A t \in Tasks :
        (cmd[t] \in LifecycleCommands /\ client[t] # <<>> /\ pc[t] \in {"await_action", "done"}) =>
            /\ Len(sent[t]) = 1
            /\ sent[t][1].method = (IF cmd[t] = "delete_container" THEN "DELETE" ELSE "POST")
            /\ sent[t][1].url = <<"https://", "pve.lan:8006", "/api2/json/nodes/", "pve", "/lxc/",
                                  ToString(arg[t])>> \o C7_Suffix(cmd[t])
            /\ sent[t][1].auth = <<"PVEAPIToken=", "root@pam!ui", "=", "s3cret">>
            /\ pc[t] = "await_action" => result[t] = <<>>
            /\ pc[t] = "done" =>
                 IF response[t].error # <<>>
                 THEN /\ ~Returned(t).ok
                      /\ Returned(t).err[Len(Returned(t).err)] = response[t].error[1]
                 ELSE IF response[t].status \notin 200..299
                 THEN /\ ~Returned(t).ok
                      /\ \E k \in 1..Len(Returned(t).err) :
                             Returned(t).err[k] = ToString(response[t].status)
                 ELSE /\ Returned(t).ok
                      /\ Returned(t).val = <<"Container ", ToString(arg[t]), " ", C7_Past(cmd[t]),
                                             " successfully">>

\* start_container was answered with status 500 and returned an error.
C7_Witness ==
    \E t \in Tasks :
        /\ cmd[t] = "start_container" /\ pc[t] = "done" /\ client[t] # <<>>
        /\ response[t].error = <<>> /\ response[t].status = 500
        /\ ~Returned(t).ok

\* ------------------------------------------------------------------- C8
C8_FirstMissing(e) ==
    CHOOSE k \in 1..4 : RequiredVars[k] \notin e /\ \A j \in 1..(k - 1) : RequiredVars[j] \in e

\* C8 as stated: construction fails when one of the four values is absent,
\* naming it, and succeeds when all four are present; the slot is filled
\* exactly when construction succeeded.
C8_Original_FourValuesDecide ==
    booted =>
        /\ (env = VarNames) <=> (proxmox # <<>>)
        /\ \A v \in VarNames :
               (env = VarNames \ {v}) =>
                   bootLog = <<"Failed to initialize Proxmox client: ", v, " not set in .env file">>
        /\ (proxmox # <<>>) <=> (bootLog = <<"Proxmox client initialized">>)

\* C8 as amended: construction fails when a required value is absent, with
\* an error naming the first absent one in the order host, node, token id,
\* token secret; it fails with "Failed to create HTTP client" when all four
\* are present and the HTTP client cannot be built; it succeeds, with the
\* four values in the client, otherwise; the slot is filled exactly when
\* construction succeeded.
C8_ConstructionOutcome ==
    booted =>
        /\ (env # VarNames) =>
              /\ proxmox = <<>>
              /\ bootLog = <<"Failed to initialize Proxmox client: ",
                             RequiredVars[C8_FirstMissing(env)], " not set in .env file">>
        /\ (env = VarNames /\ ~buildOk) =>
              /\ proxmox = <<>>
              /\ bootLog = <<"Failed to initialize Proxmox client: ",
                             "Failed to create HTTP client: ", "builder error">>
        /\ (env = VarNames /\ buildOk) =>
              /\ proxmox = <<[host |-> "pve.lan:8006", node |-> "pve",
                              token_id |-> "root@pam!ui", token_secret |-> "s3cret"]>>
              /\ bootLog = <<"Proxmox client initialized">>

\* run() has stored an empty slot because only the token secret is absent.
C8_Witness ==
    /\ booted
    /\ env = VarNames \ {"PROXMOX_TOKEN_SECRET"}
    /\ proxmox = <<>>

\* ------------------------------------------------------------------- C9
C9_Lists(t) == ifResponse[t].body[1]
C9_Usable(f) == f.name # "lo" /\ f.inet # <<>>
\* p is s cut at its first '/'.
C9_CutAtSlash(p, s) ==
    /\ Len(p) <= Len(s)
    /\ \A k \in 1..Len(p) : p[k] = s[k] /\ p[k] # "/"
    /\ Len(p) < Len(s) => s[Len(p) + 1] = "/"

\* C9: for every decoded interface list, the container's address is the
\* inet, cut at its first '/', of the first interface in response order
\* that is not "lo" and has an inet; when there is none the helper returns
\* the error "No IP found" and the address is absent.
C9_FirstUsableInterface ==
    \A t \in Tasks :
        (ListingDone(t) /\ Len(data[t]) = 1 /\ ifResponse[t].error = <<>>
           /\ ifResponse[t].status \in 200..299 /\ ifResponse[t].body # <<>>) =>
            IF \E k \in 1..Len(C9_Lists(t)) : C9_Usable(C9_Lists(t)[k])
            THEN \E k \in 1..Len(C9_Lists(t)) :
                    /\ C9_Usable(C9_Lists(t)[k])
                    /\ \A j \in 1..(k - 1) : ~C9_Usable(C9_Lists(t)[j])
                    /\ ipResult[t][1].ok
                    /\ Returned(t).val[1].ip_address # <<>>
                    /\ Returned(t).val[1].ip_address[1] = ipResult[t][1].val
                    /\ C9_CutAtSlash(ipResult[t][1].val, C9_Lists(t)[k].inet[1])
            ELSE /\ ipResult[t][1] = [ok |-> FALSE, err |-> <<"No IP found">>]
                 /\ Returned(t).val[1].ip_address = <<>>

\* A list of "lo" with an inet followed by a usable interface whose inet
\* carries a '/' after its first character has been scanned.
C9_Witness ==
    \E t \in Tasks :
        /\ ListingDone(t) /\ Len(data[t]) = 1
        /\ ifResponse[t].error = <<>> /\ ifResponse[t].status = 200 /\ ifResponse[t].body # <<>>
        /\ Len(C9_Lists(t)) = 2
        /\ C9_Lists(t)[1].name = "lo" /\ C9_Lists(t)[1].inet # <<>>
        /\ C9_Lists(t)[2].name = "eth0" /\ C9_Lists(t)[2].inet = <<<<"1", "/">>>>
        /\ Returned(t).val[1].ip_address = <<<<"1">>>>

\* ------------------------------------------------------------------ C10
C10_MainFailed(r) == r.error # <<>> \/ r.status \notin 200..299 \/ r.body = <<>>
C10_Rank(d, i) == Cardinality({j \in 1..i : d[j].status = "running"})

\* C10: when the main request fails (send, then status, then decoding) the
\* call returns the error of the first failed check and has issued the main
\* request only; interface requests exist only after the main response is
\* decoded, one per "running" record the loop has reached, in response
\* order.
C10_EnrichmentOnlyAfterDecode ==
    \A t \in Tasks :
        (cmd[t] = "get_containers" /\ client[t] # <<>> /\ pc[t] \in Awaiting \cup {"done"}) =>
            /\ Len(sent[t]) >= 1
            /\ sent[t][1].method = "GET"
            /\ sent[t][1].url = <<"https://", "pve.lan:8006", "/api2/json/nodes/", "pve", "/lxc">>
            /\ pc[t] \in {"await_list", "await_list_body"} => Len(sent[t]) = 1
            /\ (pc[t] = "done" /\ C10_MainFailed(response[t])) =>
                  /\ ~Returned(t).ok
                  /\ Len(sent[t]) = 1
                  /\ containers[t] = <<>>
                  /\ Returned(t).err[1] =
                        (IF response[t].error # <<>> THEN "Failed to fetch containers: "
                         ELSE IF response[t].status \notin 200..299 THEN "API error: "
                         ELSE "Failed to parse response: ")
            /\ Len(sent[t]) > 1 => MainDecoded(t)
            /\ (pc[t] \in {"await_ip", "await_ip_body", "done"} /\ ~C10_MainFailed(response[t])) =>
                  /\ Len(sent[t]) = 1 + Cardinality(RunningUpTo(data[t], idx[t]))
                  /\ \A i \in RunningUpTo(data[t], idx[t]) :
                        /\ sent[t][1 + C10_Rank(data[t], i)].method = "GET"
                        /\ sent[t][1 + C10_Rank(data[t], i)].url =
                              <<"https://", "pve.lan:8006", "/api2/json/nodes/", "pve", "/lxc/",
                                ToString(data[t][i].vmid), "/interfaces">>

\* A main response with status 500 has been returned as an error after the
\* main request alone, its body never read.
C10_Witness ==
    \E t \in Tasks :
        /\ ListingDone(t)
        /\ response[t].error = <<>> /\ response[t].status = 500 /\ response[t].body = <<>>
        /\ ~Returned(t).ok /\ Len(sent[t]) = 1
        /\ data[t] = <<>> /\ containers[t] = <<>>

====
